---------------------------- MODULE Spec2Model ----------------------------
(***************************************************************************)
(* Model of simple_jdbc.py: the JdbcClient (connect / close /             *)
(* execute_query / get_tables / get_columns), the pydantic argument        *)
(* models with their validators, and the three MCP handlers.               *)
(*                                                                         *)
(* Python strings whose characters matter (the query, the table name) are  *)
(* sequences of one-character strings.  The database behind jaydebeapi is  *)
(* the environment: every backend call either succeeds or raises, chosen   *)
(* nondeterministically.                                                   *)
(***************************************************************************)
EXTENDS Integers, Sequences, FiniteSets, TLC

(***************************************************************************)
(* Bounds of the model.                                                    *)
(***************************************************************************)
MaxBackendRows == 3      \* longest result set the backend produces
MaxApiCalls == 3         \* longest sequence of direct method calls on one client

(***************************************************************************)
(* Python str helpers: str.strip(), str.upper(), str.startswith().         *)
(***************************************************************************)
Whitespace == {" ", "\t", "\n", "\r"}

LowerLetters == <<"a","b","c","d","e","f","g","h","i","j","k","l","m",
                  "n","o","p","q","r","s","t","u","v","w","x","y","z">>

UpperLetters == <<"A","B","C","D","E","F","G","H","I","J","K","L","M",
                  "N","O","P","Q","R","S","T","U","V","W","X","Y","Z">>

UpperChar(c) ==
    IF \E i \in 1..Len(LowerLetters) : LowerLetters[i] = c
    THEN UpperLetters[CHOOSE i \in 1..Len(LowerLetters) : LowerLetters[i] = c]
    ELSE c

upper(s) == [i \in 1..Len(s) |-> UpperChar(s[i])]

RECURSIVE lstrip(_)
lstrip(s) ==
    IF s # <<>> /\ Head(s) \in Whitespace THEN lstrip(Tail(s)) ELSE s

RECURSIVE rstrip(_)
rstrip(s) ==
    IF s # <<>> /\ s[Len(s)] \in Whitespace
    THEN rstrip(SubSeq(s, 1, Len(s) - 1))
    ELSE s

strip(s) == rstrip(lstrip(s))

startswith(s, prefix) ==
    /\ Len(s) >= Len(prefix)
    /\ SubSeq(s, 1, Len(prefix)) = prefix

SELECT == <<"S","E","L","E","C","T">>

(***************************************************************************)
(* QueryArgs: field constraints and the 'query' field validator.           *)
(***************************************************************************)
MaxRowsDefault == 100
MaxRowsGe == 1
MaxRowsLe == 1000

\* Faulty variant: the statement is compared without upper-casing it.
validate_query_noupper(v) ==
    IF v = <<>> \/ strip(v) = <<>>
    THEN [ok |-> FALSE, msg |-> "Query cannot be empty", value |-> <<>>]
    ELSE IF ~ startswith(strip(v), SELECT)
         THEN [ok |-> FALSE,
               msg |-> "Only SELECT queries are allowed for security reasons",
               value |-> <<>>]
         ELSE [ok |-> TRUE, msg |-> "", value |-> strip(v)]

\* Faulty variant: the SELECT check is missing; only emptiness is rejected.
validate_query_nocheck(v) ==
    IF v = <<>> \/ strip(v) = <<>>
    THEN [ok |-> FALSE, msg |-> "Query cannot be empty", value |-> <<>>]
    ELSE [ok |-> TRUE, msg |-> "", value |-> strip(v)]

\* QueryArgs.validate_query: [ok, msg, value]
validate_query(v) ==
    IF v = <<>> \/ strip(v) = <<>>
    THEN [ok |-> FALSE, msg |-> "Query cannot be empty", value |-> <<>>]
    ELSE LET cleaned_query == upper(strip(v))
         IN  IF ~ startswith(cleaned_query, SELECT)
             THEN [ok |-> FALSE,
                   msg |-> "Only SELECT queries are allowed for security reasons",
                   value |-> <<>>]
             ELSE [ok |-> TRUE, msg |-> "", value |-> strip(v)]

\* GetColumnsArgs.validate_table_name: [ok, msg, value]
validate_table_name(v) ==
    IF v = <<>> \/ strip(v) = <<>>
    THEN [ok |-> FALSE, msg |-> "Table name cannot be empty", value |-> <<>>]
    ELSE [ok |-> TRUE, msg |-> "", value |-> strip(v)]

(***************************************************************************)
(* Raw handler arguments.  A field that the caller may leave out is a      *)
(* sequence: <<>> when absent, <<v>> when given.                           *)
(***************************************************************************)
NoneValue == "<None>"
NotAString == "<int>"      \* a schema argument of the wrong type

\* QueryArgs(**arguments): [ok, msg, query, max_rows]
QueryArgs(arguments) ==
    LET q == IF arguments.query = <<>>
             THEN [ok |-> FALSE, msg |-> "Field required", value |-> <<>>]
             ELSE validate_query(arguments.query[1])
        m == IF arguments.max_rows = <<>> THEN MaxRowsDefault
             ELSE arguments.max_rows[1]
        mOk == m >= MaxRowsGe /\ m <= MaxRowsLe
    IN  [ok |-> q.ok /\ mOk,
         msg |-> IF ~ q.ok THEN q.msg
                 ELSE IF ~ mOk THEN "max_rows out of range" ELSE "",
         query |-> q.value,
         max_rows |-> m]

\* GetTablesArgs(**arguments): [ok, msg, schema, include_system]
GetTablesArgs(arguments) ==
    LET s == IF arguments.schema = <<>> THEN NoneValue ELSE arguments.schema[1]
        sOk == s # NotAString
    IN  [ok |-> sOk,
         msg |-> IF sOk THEN "" ELSE "Input should be a valid string",
         schema |-> s,
         include_system |-> IF arguments.include_system = <<>> THEN FALSE
                            ELSE arguments.include_system[1]]

\* GetColumnsArgs(**arguments): [ok, msg, table_name, schema]
GetColumnsArgs(arguments) ==
    LET t == IF arguments.table_name = <<>>
             THEN [ok |-> FALSE, msg |-> "Field required", value |-> <<>>]
             ELSE validate_table_name(arguments.table_name[1])
        s == IF arguments.schema = <<>> THEN NoneValue ELSE arguments.schema[1]
        sOk == s # NotAString
    IN  [ok |-> t.ok /\ sOk,
         msg |-> IF ~ t.ok THEN t.msg
                 ELSE IF ~ sOk THEN "Input should be a valid string" ELSE "",
         table_name |-> t.value,
         schema |-> s]

(***************************************************************************)
(* JdbcConfig and JdbcClient._verify_config.                               *)
(***************************************************************************)
ExistingFiles == {"driver.jar"}

path_exists(p) == p \in ExistingFiles

\* Faulty variant: the existence of the driver JAR is not checked.
verify_config_noexists(config) ==
    IF config.jdbc_url = "" THEN "JDBC URL is required"
    ELSE IF config.jdbc_driver = "" THEN "JDBC driver class name is required"
    ELSE IF config.jdbc_driver_path = "" THEN "JDBC driver JAR path is required"
    ELSE ""

\* Faulty variant: the JDBC URL is not checked.
verify_config_nourl(config) ==
    IF config.jdbc_driver = "" THEN "JDBC driver class name is required"
    ELSE IF config.jdbc_driver_path = "" THEN "JDBC driver JAR path is required"
    ELSE IF ~ path_exists(config.jdbc_driver_path) THEN "JDBC driver JAR not found"
    ELSE ""

\* The message of the JdbcError raised, "" when the configuration passes.
verify_config(config) ==
    IF config.jdbc_url = "" THEN "JDBC URL is required"
    ELSE IF config.jdbc_driver = "" THEN "JDBC driver class name is required"
    ELSE IF config.jdbc_driver_path = "" THEN "JDBC driver JAR path is required"
    ELSE IF ~ path_exists(config.jdbc_driver_path) THEN "JDBC driver JAR not found"
    ELSE ""

(***************************************************************************)
(* The backend behind jaydebeapi.  A backend call is logged as             *)
(* [op, ok]; ok = FALSE means the call raised.  conns[i] is the state of   *)
(* the i-th connection the backend handed out.                             *)
(***************************************************************************)
Call(op, ok) == [op |-> op, ok |-> ok]

NoConnection == 0        \* self._connection = None

BackendError == "backend error"

\* Faulty variant: a failed connection attempt is made a second time.
connect_retry(connection, conns, calls, ok) ==
    IF ok
    THEN [connection |-> Len(conns) + 1,
          conns |-> Append(conns, "open"),
          calls |-> Append(calls, Call("connect", TRUE)),
          raised |-> ""]
    ELSE [connection |-> connection,
          conns |-> conns,
          calls |-> calls \o <<Call("connect", FALSE), Call("connect", FALSE)>>,
          raised |-> "Connection failed"]

\* JdbcClient.connect(): [connection, conns, calls, raised]; ok is the
\* outcome of jaydebeapi.connect.  A failure leaves the handle as it was.
connect(connection, conns, calls, ok) ==
    IF ok
    THEN [connection |-> Len(conns) + 1,
          conns |-> Append(conns, "open"),
          calls |-> Append(calls, Call("connect", TRUE)),
          raised |-> ""]
    ELSE [connection |-> connection,
          conns |-> conns,
          calls |-> Append(calls, Call("connect", FALSE)),
          raised |-> "Connection failed"]

\* Faulty variant: the handle is dropped without closing the backend connection.
close_nobackend(connection, conns, calls, ok) ==
    [connection |-> NoConnection, conns |-> conns, calls |-> calls, raised |-> ""]

\* Faulty variant: no 'finally'; the handle survives a failed backend close.
close_nofinally(connection, conns, calls, ok) ==
    IF connection # NoConnection
    THEN [connection |-> IF ok THEN NoConnection ELSE connection,
          conns |-> [conns EXCEPT ![connection] =
                        IF ok THEN "closed" ELSE "close_failed"],
          calls |-> Append(calls, Call("conn.close", ok)),
          raised |-> ""]
    ELSE [connection |-> connection, conns |-> conns, calls |-> calls,
          raised |-> ""]

\* Faulty variant: no 'except'; the backend's error leaves close().
close_noexcept(connection, conns, calls, ok) ==
    IF connection # NoConnection
    THEN [connection |-> NoConnection,
          conns |-> [conns EXCEPT ![connection] =
                        IF ok THEN "closed" ELSE "close_failed"],
          calls |-> Append(calls, Call("conn.close", ok)),
          raised |-> IF ok THEN "" ELSE BackendError]
    ELSE [connection |-> connection, conns |-> conns, calls |-> calls,
          raised |-> ""]

\* JdbcClient.close(): [connection, conns, calls, raised]; ok is the
\* outcome of the backend's close.  Its error is logged, never raised.
close(connection, conns, calls, ok) ==
    IF connection # NoConnection
    THEN [connection |-> NoConnection,
          conns |-> [conns EXCEPT ![connection] =
                        IF ok THEN "closed" ELSE "close_failed"],
          calls |-> Append(calls, Call("conn.close", ok)),
          raised |-> ""]
    ELSE [connection |-> connection, conns |-> conns, calls |-> calls,
          raised |-> ""]

(***************************************************************************)
(* Cursor over a result set: fetchmany(n) and fetchone() of DB-API 2.0.    *)
(***************************************************************************)
Min(a, b) == IF a <= b THEN a ELSE b

NoCursor == [state |-> "none", rows |-> <<>>, pos |-> 0]

\* cursor.fetchmany(size): the next rows, at most size of them.
fetchmany(cur, size) ==
    LET n == Min(size, Len(cur.rows) - cur.pos)
    IN  [rows |-> SubSeq(cur.rows, cur.pos + 1, cur.pos + n),
         cur |-> [cur EXCEPT !.pos = cur.pos + n]]

\* cursor.fetchone(): <<row>>, or <<>> for None when the rows are exhausted.
fetchone(cur) ==
    IF cur.pos < Len(cur.rows)
    THEN [row |-> <<cur.rows[cur.pos + 1]>>,
          cur |-> [cur EXCEPT !.pos = cur.pos + 1]]
    ELSE [row |-> <<>>, cur |-> cur]

\* Faulty variant: has_more tests 'is None' instead of 'is not None'.
QueryResult_inverted(columns, rows, extra) ==
    [columns |-> columns,
     rows |-> rows,
     row_count |-> Len(rows),
     has_more |-> extra = <<>>]

\* The dict execute_query returns; extra is what cursor.fetchone() gave.
QueryResult(columns, rows, extra) ==
    [columns |-> columns,
     rows |-> rows,
     row_count |-> Len(rows),
     has_more |-> extra # <<>>]

(***************************************************************************)
(* Catalog metadata (DatabaseMetaData) of the backend.                     *)
(***************************************************************************)
T1 == <<"t","1">>

CatalogTables ==
    << [table_name |-> T1, schema |-> "public", type |-> "TABLE", remarks |-> ""],
       [table_name |-> <<"s","y","s">>, schema |-> "public",
        type |-> "SYSTEM TABLE", remarks |-> ""],
       [table_name |-> <<"t","2">>, schema |-> "other", type |-> "TABLE",
        remarks |-> ""] >>

CatalogColumns ==
    << [table |-> T1, schema |-> "public", name |-> "id", type |-> "INTEGER",
        size |-> 10, nullable |-> FALSE, default |-> NoneValue, remarks |-> ""],
       [table |-> T1, schema |-> "public", name |-> "owner", type |-> "INTEGER",
        size |-> 10, nullable |-> TRUE, default |-> NoneValue, remarks |-> ""] >>

CatalogPrimaryKeys == << [table |-> T1, schema |-> "public", name |-> "id"] >>

CatalogImportedKeys ==
    << [table |-> T1, schema |-> "public", fk_name |-> "fk_owner",
        fk_column |-> "owner", pk_table |-> "users", pk_column |-> "id"] >>

InSchema(row, schema) == schema = NoneValue \/ row.schema = schema

\* metadata.getTables(None, schema, "%", ["TABLE"] if not include_system else None)
getTables(schema, include_system) ==
    LET keep(r) == InSchema(r, schema) /\ (include_system \/ r.type = "TABLE")
        sel == SelectSeq(CatalogTables, keep)
    IN  [i \in 1..Len(sel) |->
            [table_name |-> sel[i].table_name, schema |-> sel[i].schema,
             type |-> sel[i].type, remarks |-> sel[i].remarks]]

\* metadata.getColumns(None, schema, table_name, "%")
getColumns(schema, table_name) ==
    LET keep(r) == InSchema(r, schema) /\ r.table = table_name
        sel == SelectSeq(CatalogColumns, keep)
    IN  [i \in 1..Len(sel) |->
            [name |-> sel[i].name, type |-> sel[i].type, size |-> sel[i].size,
             nullable |-> sel[i].nullable, default |-> sel[i].default,
             remarks |-> sel[i].remarks]]

\* metadata.getPrimaryKeys(None, schema, table_name)
getPrimaryKeys(schema, table_name) ==
    LET keep(r) == InSchema(r, schema) /\ r.table = table_name
        sel == SelectSeq(CatalogPrimaryKeys, keep)
    IN  [i \in 1..Len(sel) |-> sel[i].name]

\* metadata.getImportedKeys(None, schema, table_name)
getImportedKeys(schema, table_name) ==
    LET keep(r) == InSchema(r, schema) /\ r.table = table_name
        sel == SelectSeq(CatalogImportedKeys, keep)
    IN  [i \in 1..Len(sel) |->
            [fk_name |-> sel[i].fk_name, fk_column |-> sel[i].fk_column,
             pk_table |-> sel[i].pk_table, pk_column |-> sel[i].pk_column]]

\* The catalog calls a method issues, in order.
CatalogCalls(method) ==
    IF method = "get_tables" THEN <<"getTables">>
    ELSE <<"getColumns", "getPrimaryKeys", "getImportedKeys">>

CatalogResult(name, a) ==
    CASE name = "getTables" -> getTables(a.schema, a.include_system)
      [] name = "getColumns" -> getColumns(a.schema, a.table_name)
      [] name = "getPrimaryKeys" -> getPrimaryKeys(a.schema, a.table_name)
      [] OTHER -> getImportedKeys(a.schema, a.table_name)

\* The message of the JdbcError a method's 'except Exception' clause raises.
WrapMessage(method) ==
    CASE method = "execute_query" -> "Query failed"
      [] method = "get_tables" -> "Failed to get tables"
      [] OTHER -> "Failed to get columns"

(***************************************************************************)
(* json.dumps of a result: a value the encoder does not know raises.       *)
(***************************************************************************)
Values == {"a", "blob"}

JsonSafe(v) == v # "blob"

json_dumps_ok(method, res) ==
    method = "execute_query" => \A i \in 1..Len(res.rows) : JsonSafe(res.rows[i])

(***************************************************************************)
(* Inputs.                                                                 *)
(***************************************************************************)
Handlers == {"execute_query", "get_tables", "get_columns"}

Pads == {<<>>, <<" ">>, <<"\n", "\t">>}

Words == {SELECT,
          <<"s","e","l","e","c","t">>,
          <<"S","e","l","e","c","T">>,
          <<"S","E","L","E","C">>,
          SELECT \o <<"E","D">>,
          SELECT \o <<"*">>,
          <<"X">> \o SELECT,
          <<"D","R","O","P">>,
          <<"-","-">>,
          <<>>}

Tails == {<<>>, <<" ","t">>, <<"\n","t"," ">>}

QueryInputs == {p \o w \o t : p \in Pads, w \in Words, t \in Tails}

MaxRowsInputs == {0, 1, 2, MaxRowsLe, MaxRowsLe + 1}

TableNameInputs == {<<>>, <<" ">>, T1, <<" ">> \o T1 \o <<" ">>, <<"n","o">>}

SchemaInputs == {<<>>, <<"public">>, <<NotAString>>}

Opt(S) == {<<>>} \cup {<<x>> : x \in S}

NoArguments ==
    [query |-> <<>>, max_rows |-> <<>>, schema |-> <<>>,
     include_system |-> <<>>, table_name |-> <<>>]

ArgumentsOf(h) ==
    CASE h = "execute_query" ->
           {[NoArguments EXCEPT !.query = q, !.max_rows = m] :
               q \in Opt(QueryInputs), m \in Opt(MaxRowsInputs)}
      [] h = "get_tables" ->
           {[NoArguments EXCEPT !.schema = sc, !.include_system = i] :
               sc \in SchemaInputs, i \in Opt(BOOLEAN)}
      [] OTHER ->
           {[NoArguments EXCEPT !.table_name = t, !.schema = sc] :
               t \in Opt(TableNameInputs), sc \in SchemaInputs}

Configs ==
    [jdbc_url : {"", "jdbc:h2:mem:db"},
     jdbc_driver : {"", "org.h2.Driver"},
     jdbc_driver_path : {"", "missing.jar", "driver.jar"},
     username : {"", "sa"},
     password : {"", "secret"}]

NoArgs ==
    [query |-> <<>>, max_rows |-> MaxRowsDefault, schema |-> NoneValue,
     include_system |-> FALSE, table_name |-> <<>>]

\* args = XxxArgs(**arguments) of the three handlers: [ok, msg, args]
ParseArgs(h, arguments) ==
    CASE h = "execute_query" ->
           LET p == QueryArgs(arguments)
           IN  [ok |-> p.ok, msg |-> p.msg,
                args |-> [NoArgs EXCEPT !.query = p.query,
                                        !.max_rows = p.max_rows]]
      [] h = "get_tables" ->
           LET p == GetTablesArgs(arguments)
           IN  [ok |-> p.ok, msg |-> p.msg,
                args |-> [NoArgs EXCEPT !.schema = p.schema,
                                        !.include_system = p.include_system]]
      [] OTHER ->
           LET p == GetColumnsArgs(arguments)
           IN  [ok |-> p.ok, msg |-> p.msg,
                args |-> [NoArgs EXCEPT !.table_name = p.table_name,
                                        !.schema = p.schema]]

BackendResults == UNION {[1..n -> Values] : n \in 0..MaxBackendRows}

Columns == <<"id", "code">>

(***************************************************************************)
(* State.                                                                  *)
(***************************************************************************)
VARIABLES
    mode,         \* "handler": an MCP handler runs; "api": a caller uses a client
    pc,           \* position in the handler / method
    handler,      \* the handler (or client method) running
    arguments,    \* the raw arguments dict
    args,         \* the validated arguments
    config,       \* JdbcConfig
    clientBound,  \* 'client' in locals()
    connection,   \* JdbcClient._connection
    conns,        \* backend: state of every connection handed out
    calls,        \* backend: log of the calls received
    cursor,       \* the cursor object
    cursorBound,  \* 'cursor' in locals() / the 'with' block was entered
    stage,        \* index of the catalog call in progress
    rs,           \* the current catalog result set
    rsData,       \* the lists read from the result sets so far
    pending,      \* exception raised inside the method's try block
    result,       \* <<dict>> built by the method, <<>> if none
    exc,          \* message of the exception the method / validation raised
    retval,       \* <<record>> the handler is about to return
    escaped,      \* message of an exception that left the handler
    responses,    \* records the handler returned to the host
    lastOp,       \* api mode: the last method called
    apiCalls      \* api mode: number of methods called

vars == <<mode, pc, handler, arguments, args, config, clientBound, connection,
          conns, calls, cursor, cursorBound, stage, rs, rsData, pending,
          result, exc, retval, escaped, responses, lastOp, apiCalls>>

inputVars == <<mode, handler, arguments, config>>
backendVars == <<connection, conns, calls>>
methodVars == <<cursor, cursorBound, stage, rs, rsData, pending, result>>
hostVars == <<retval, escaped, responses>>
apiVars == <<lastOp, apiCalls>>

Init ==
    /\ mode = "handler"
    /\ pc = "idle"
    /\ handler = "execute_query"
    /\ arguments = NoArguments
    /\ args = NoArgs
    /\ config = [jdbc_url |-> "", jdbc_driver |-> "", jdbc_driver_path |-> "",
                 username |-> "", password |-> ""]
    /\ clientBound = FALSE
    /\ connection = NoConnection
    /\ conns = <<>>
    /\ calls = <<>>
    /\ cursor = NoCursor
    /\ cursorBound = FALSE
    /\ stage = 1
    /\ rs = <<>>
    /\ rsData = <<>>
    /\ pending = ""
    /\ result = <<>>
    /\ exc = ""
    /\ retval = <<>>
    /\ escaped = ""
    /\ responses = <<>>
    /\ lastOp = ""
    /\ apiCalls = 0

(***************************************************************************)
(* The handlers: execute_query, get_tables, get_columns.                   *)
(***************************************************************************)
\* The host calls a handler with raw arguments, under some environment.
Invoke ==
    /\ pc = "idle"
    /\ mode = "handler"
    /\ \E h \in Handlers :
         \E a \in ArgumentsOf(h), c \in Configs :
           /\ handler' = h
           /\ arguments' = a
           /\ config' = c
    /\ pc' = "validate"
    /\ UNCHANGED <<mode, args, clientBound, exc>>
    /\ UNCHANGED <<backendVars, methodVars, hostVars, apiVars>>

\* args = QueryArgs(**arguments) / GetTablesArgs(...) / GetColumnsArgs(...)
ValidateArgs ==
    /\ pc = "validate"
    /\ LET p == ParseArgs(handler, arguments)
       IN  IF p.ok
           THEN args' = p.args /\ exc' = exc /\ pc' = "construct"
           ELSE args' = args /\ exc' = p.msg /\ pc' = "except"
    /\ UNCHANGED <<inputVars, clientBound>>
    /\ UNCHANGED <<backendVars, methodVars, hostVars, apiVars>>

\* config = JdbcConfig(); client = JdbcClient(config)
Construct ==
    /\ pc = "construct"
    /\ LET e == verify_config(config)
       IN  IF e = ""
           THEN clientBound' = TRUE /\ exc' = exc /\ pc' = "method"
           ELSE clientBound' = FALSE /\ exc' = e /\ pc' = "except"
    /\ connection' = NoConnection
    /\ UNCHANGED <<inputVars, args, conns, calls>>
    /\ UNCHANGED <<methodVars, hostVars, apiVars>>

\* return json.dumps(result).encode()
Serialize ==
    /\ pc = "serialize"
    /\ IF json_dumps_ok(handler, result[1])
       THEN /\ retval' = <<[kind |-> "success", error |-> "", value |-> result]>>
            /\ exc' = exc
            /\ pc' = "finally"
       ELSE /\ retval' = retval
            /\ exc' = "Object is not JSON serializable"
            /\ pc' = "except"
    /\ UNCHANGED <<inputVars, args, clientBound, escaped, responses>>
    /\ UNCHANGED <<backendVars, methodVars, apiVars>>

\* except Exception as e: return json.dumps({"error": str(e)}).encode()
Except ==
    /\ pc = "except"
    /\ retval' = <<[kind |-> "error", error |-> exc, value |-> <<>>]>>
    /\ pc' = "finally"
    /\ UNCHANGED <<inputVars, args, clientBound, exc, escaped, responses>>
    /\ UNCHANGED <<backendVars, methodVars, apiVars>>

\* finally: if 'client' in locals(): client.close()
Finally ==
    /\ pc = "finally"
    /\ \E ok \in BOOLEAN :
         IF clientBound
         THEN LET r == close(connection, conns, calls, ok)
              IN  /\ connection' = r.connection
                  /\ conns' = r.conns
                  /\ calls' = r.calls
                  /\ escaped' = r.raised
                  /\ pc' = IF r.raised = "" THEN "return" ELSE "done"
         ELSE /\ UNCHANGED <<backendVars, escaped>>
              /\ pc' = "return"
    /\ UNCHANGED <<inputVars, args, clientBound, exc, retval, responses>>
    /\ UNCHANGED <<methodVars, apiVars>>

\* The handler hands its return value to the host.
Return ==
    /\ pc = "return"
    /\ responses' = Append(responses, retval[1])
    /\ pc' = "done"
    /\ UNCHANGED <<inputVars, args, clientBound, exc, retval, escaped>>
    /\ UNCHANGED <<backendVars, methodVars, apiVars>>

(***************************************************************************)
(* The JdbcClient methods execute_query, get_tables, get_columns, one      *)
(* action per backend call.  A method gives control back to the handler    *)
(* (mode "handler") or to the caller of the client (mode "api").           *)
(***************************************************************************)
AfterRaise == IF mode = "handler" THEN "except" ELSE "api_idle"
AfterReturn == IF mode = "handler" THEN "serialize" ELSE "api_idle"

TablesResult(data) == [tables |-> data[1], count |-> Len(data[1])]

ColumnsResult(a, data) ==
    [table_name |-> a.table_name, schema |-> a.schema, columns |-> data[1],
     primary_keys |-> data[2], foreign_keys |-> data[3]]

\* if not self._connection: self.connect()
LazyConnect ==
    /\ pc = "method"
    /\ IF connection = NoConnection
       THEN \E ok \in BOOLEAN :
              LET r == connect(connection, conns, calls, ok)
              IN  /\ connection' = r.connection
                  /\ conns' = r.conns
                  /\ calls' = r.calls
                  /\ exc' = r.raised
                  /\ pc' = IF r.raised = "" THEN "cursor" ELSE AfterRaise
       ELSE /\ UNCHANGED <<backendVars, exc>>
            /\ pc' = "cursor"
    /\ UNCHANGED <<inputVars, args, clientBound>>
    /\ UNCHANGED <<methodVars, hostVars, apiVars>>

\* self._connection.cursor()
OpenCursor ==
    /\ pc = "cursor"
    /\ \E ok \in BOOLEAN :
         /\ calls' = Append(calls, Call("cursor", ok))
         /\ IF ok
            THEN /\ cursor' = [NoCursor EXCEPT !.state = "open"]
                 /\ cursorBound' = TRUE
                 /\ exc' = exc
                 /\ pc' = IF handler = "execute_query" THEN "execute"
                          ELSE "getMetaData"
            ELSE /\ UNCHANGED <<cursor, cursorBound>>
                 /\ exc' = WrapMessage(handler)
                 /\ pc' = AfterRaise
    /\ UNCHANGED <<inputVars, args, clientBound, connection, conns>>
    /\ UNCHANGED <<stage, rs, rsData, pending, result, hostVars, apiVars>>

\* cursor.execute(query); columns = [desc[0] for desc in cursor.description]
Execute ==
    /\ pc = "execute"
    /\ \E ok \in BOOLEAN, rows \in BackendResults :
         /\ calls' = Append(calls, Call("execute", ok))
         /\ IF ok
            THEN /\ cursor' = [cursor EXCEPT !.rows = rows, !.pos = 0]
                 /\ pending' = pending
                 /\ pc' = "fetchmany"
            ELSE /\ cursor' = cursor
                 /\ pending' = BackendError
                 /\ pc' = "cursor_close"
    /\ UNCHANGED <<inputVars, args, clientBound, connection, conns, exc>>
    /\ UNCHANGED <<cursorBound, stage, rs, rsData, result, hostVars, apiVars>>

\* rows = cursor.fetchmany(max_rows)
FetchMany ==
    /\ pc = "fetchmany"
    /\ \E ok \in BOOLEAN :
         /\ calls' = Append(calls, Call("fetchmany", ok))
         /\ IF ok
            THEN LET f == fetchmany(cursor, args.max_rows)
                 IN  /\ cursor' = f.cur
                     /\ rsData' = <<f.rows>>
                     /\ pending' = pending
                     /\ pc' = "fetchone"
            ELSE /\ UNCHANGED <<cursor, rsData>>
                 /\ pending' = BackendError
                 /\ pc' = "cursor_close"
    /\ UNCHANGED <<inputVars, args, clientBound, connection, conns, exc>>
    /\ UNCHANGED <<cursorBound, stage, rs, result, hostVars, apiVars>>

\* return {..., "has_more": cursor.fetchone() is not None}
FetchOne ==
    /\ pc = "fetchone"
    /\ \E ok \in BOOLEAN :
         /\ calls' = Append(calls, Call("fetchone", ok))
         /\ IF ok
            THEN LET f == fetchone(cursor)
                 IN  /\ cursor' = f.cur
                     /\ result' = <<QueryResult(Columns, rsData[1], f.row)>>
                     /\ pending' = pending
            ELSE /\ UNCHANGED <<cursor, result>>
                 /\ pending' = BackendError
    /\ pc' = "cursor_close"
    /\ UNCHANGED <<inputVars, args, clientBound, connection, conns, exc>>
    /\ UNCHANGED <<cursorBound, stage, rs, rsData, hostVars, apiVars>>

\* metadata = self._connection.jconn.getMetaData()
GetMetaData ==
    /\ pc = "getMetaData"
    /\ \E ok \in BOOLEAN :
         /\ calls' = Append(calls, Call("getMetaData", ok))
         /\ IF ok
            THEN pending' = pending /\ pc' = "catalog"
            ELSE pending' = BackendError /\ pc' = "cursor_close"
    /\ UNCHANGED <<inputVars, args, clientBound, connection, conns, exc>>
    /\ UNCHANGED <<cursor, cursorBound, stage, rs, rsData, result>>
    /\ UNCHANGED <<hostVars, apiVars>>

\* rs = metadata.getTables(...) / getColumns(...) / getPrimaryKeys(...) /
\* getImportedKeys(...)
CatalogCall ==
    /\ pc = "catalog"
    /\ \E ok \in BOOLEAN :
         LET name == CatalogCalls(handler)[stage]
         IN  /\ calls' = Append(calls, Call(name, ok))
             /\ IF ok
                THEN /\ rs' = CatalogResult(name, args)
                     /\ pending' = pending
                     /\ pc' = "read"
                ELSE /\ rs' = rs
                     /\ pending' = BackendError
                     /\ pc' = "cursor_close"
    /\ UNCHANGED <<inputVars, args, clientBound, connection, conns, exc>>
    /\ UNCHANGED <<cursor, cursorBound, stage, rsData, result>>
    /\ UNCHANGED <<hostVars, apiVars>>

\* while rs.next(): xs.append(...)
ReadResultSet ==
    /\ pc = "read"
    /\ \E ok \in BOOLEAN :
         /\ calls' = Append(calls, Call("rs.next", ok))
         /\ IF ok
            THEN LET data == Append(rsData, rs)
                 IN  /\ rsData' = data
                     /\ pending' = pending
                     /\ IF stage = Len(CatalogCalls(handler))
                        THEN /\ result' = IF handler = "get_tables"
                                          THEN <<TablesResult(data)>>
                                          ELSE <<ColumnsResult(args, data)>>
                             /\ stage' = stage
                             /\ pc' = "cursor_close"
                        ELSE /\ result' = result
                             /\ stage' = stage + 1
                             /\ pc' = "catalog"
            ELSE /\ UNCHANGED <<rsData, result, stage>>
                 /\ pending' = BackendError
                 /\ pc' = "cursor_close"
    /\ UNCHANGED <<inputVars, args, clientBound, connection, conns, exc>>
    /\ UNCHANGED <<cursor, cursorBound, rs, hostVars, apiVars>>

\* execute_query: the 'with' block's exit closes the cursor inside the try.
\* get_tables / get_columns: finally: if 'cursor' in locals(): cursor.close()
\* The method then returns or raises, and its locals are gone; a closed
\* cursor serves no rows any more.
CloseCursor ==
    /\ pc = "cursor_close"
    /\ cursorBound
    /\ \E ok \in BOOLEAN :
         /\ calls' = Append(calls, Call("cursor.close", ok))
         /\ cursor' = [NoCursor EXCEPT !.state = IF ok THEN "closed"
                                                 ELSE "close_failed"]
         /\ IF handler = "execute_query"
            THEN IF pending # "" \/ ~ ok
                 THEN exc' = WrapMessage(handler) /\ result' = <<>>
                      /\ pc' = AfterRaise
                 ELSE exc' = "" /\ result' = result /\ pc' = AfterReturn
            ELSE IF ~ ok
                 THEN exc' = BackendError /\ result' = <<>> /\ pc' = AfterRaise
                 ELSE IF pending # ""
                      THEN exc' = WrapMessage(handler) /\ result' = <<>>
                           /\ pc' = AfterRaise
                      ELSE exc' = "" /\ result' = result /\ pc' = AfterReturn
    /\ cursorBound' = FALSE
    /\ stage' = 1
    /\ rs' = <<>>
    /\ rsData' = <<>>
    /\ pending' = ""
    /\ UNCHANGED <<inputVars, args, clientBound, connection, conns>>
    /\ UNCHANGED <<hostVars, apiVars>>

MethodStep ==
    \/ LazyConnect
    \/ OpenCursor
    \/ Execute
    \/ FetchMany
    \/ FetchOne
    \/ GetMetaData
    \/ CatalogCall
    \/ ReadResultSet
    \/ CloseCursor

Next ==
    \/ Invoke
    \/ ValidateArgs
    \/ Construct
    \/ MethodStep
    \/ Serialize
    \/ Except
    \/ Finally
    \/ Return

Spec == Init /\ [][Next]_vars

(***************************************************************************)
(* Direct use of one JdbcClient: a caller constructs the client with a     *)
(* valid configuration and calls its public methods in any order.          *)
(***************************************************************************)
ApiArgs ==
    [NoArgs EXCEPT !.query = SELECT \o <<" ","1">>, !.max_rows = MaxRowsGe]

InitClient ==
    /\ mode = "api"
    /\ pc = "api_idle"
    /\ handler = "execute_query"
    /\ arguments = NoArguments
    /\ args = NoArgs
    /\ config \in {c \in Configs : verify_config(c) = ""}
    /\ clientBound = TRUE
    /\ connection = NoConnection
    /\ conns = <<>>
    /\ calls = <<>>
    /\ cursor = NoCursor
    /\ cursorBound = FALSE
    /\ stage = 1
    /\ rs = <<>>
    /\ rsData = <<>>
    /\ pending = ""
    /\ result = <<>>
    /\ exc = ""
    /\ retval = <<>>
    /\ escaped = ""
    /\ responses = <<>>
    /\ lastOp = ""
    /\ apiCalls = 0

\* client.connect()
ApiConnect ==
    /\ pc = "api_idle"
    /\ apiCalls < MaxApiCalls
    /\ \E ok \in BOOLEAN :
         LET r == connect(connection, conns, calls, ok)
         IN  /\ connection' = r.connection
             /\ conns' = r.conns
             /\ calls' = r.calls
             /\ exc' = r.raised
    /\ lastOp' = "connect"
    /\ apiCalls' = apiCalls + 1
    /\ UNCHANGED <<inputVars, args, clientBound, pc, methodVars, hostVars>>

\* client.close()
ApiClose ==
    /\ pc = "api_idle"
    /\ apiCalls < MaxApiCalls
    /\ \E ok \in BOOLEAN :
         LET r == close(connection, conns, calls, ok)
         IN  /\ connection' = r.connection
             /\ conns' = r.conns
             /\ calls' = r.calls
             /\ exc' = r.raised
    /\ lastOp' = "close"
    /\ apiCalls' = apiCalls + 1
    /\ UNCHANGED <<inputVars, args, clientBound, pc, methodVars, hostVars>>

\* client.execute_query(query, max_rows)
ApiExecuteQuery ==
    /\ pc = "api_idle"
    /\ apiCalls < MaxApiCalls
    /\ handler' = "execute_query"
    /\ args' = ApiArgs
    /\ pc' = "method"
    /\ result' = <<>>
    /\ exc' = ""
    /\ lastOp' = "execute_query"
    /\ apiCalls' = apiCalls + 1
    /\ UNCHANGED <<mode, arguments, config, clientBound, backendVars, hostVars>>
    /\ UNCHANGED <<cursor, cursorBound, stage, rs, rsData, pending>>

NextClient ==
    \/ ApiConnect
    \/ ApiClose
    \/ ApiExecuteQuery
    \/ LazyConnect
    \/ OpenCursor
    \/ Execute
    \/ FetchMany
    \/ FetchOne
    \/ CloseCursor

SpecClient == InitClient /\ [][NextClient]_vars

(***************************************************************************)
(* Vocabulary of the properties.                                           *)
(***************************************************************************)
CallIndices == 1..Len(calls)

CountCalls(op) == Cardinality({i \in CallIndices : calls[i].op = op})

Failed(i) == ~ calls[i].ok

ReleaseOps == {"cursor.close", "conn.close"}

IssuedOnceOps ==
    {"connect", "execute", "getTables", "getColumns", "getPrimaryKeys",
     "getImportedKeys"}

\* The leading run of characters up to the first whitespace.
RECURSIVE FirstToken(_)
FirstToken(s) ==
    IF s = <<>> \/ Head(s) \in Whitespace THEN <<>>
    ELSE <<Head(s)>> \o FirstToken(Tail(s))

LowerSelect == <<"s","e","l","e","c","t">>

\* s begins with the letters of SELECT, each in either case.
BeginsWithSelect(s) ==
    /\ Len(s) >= Len(SELECT)
    /\ \A i \in 1..Len(SELECT) : s[i] \in {SELECT[i], LowerSelect[i]}

\* s is the letters of SELECT, each in either case, and nothing more.
IsSelect(s) == Len(s) = Len(SELECT) /\ BeginsWithSelect(s)

QueryValidatorMessages ==
    {"Query cannot be empty",
     "Only SELECT queries are allowed for security reasons"}

ArgumentMessages ==
    QueryValidatorMessages \cup
    {"Field required", "max_rows out of range", "Table name cannot be empty",
     "Input should be a valid string"}

ConfigMessages ==
    {"JDBC URL is required", "JDBC driver class name is required",
     "JDBC driver JAR path is required", "JDBC driver JAR not found"}

Started == pc # "idle"
Validated == pc \notin {"idle", "validate"}
Returned == pc = "done"

QueryGiven == handler = "execute_query" /\ arguments.query # <<>>

\* The 'query' validator raised.
QueryRejected == exc \in QueryValidatorMessages

OneErrorRecord ==
    /\ Len(responses) = 1
    /\ responses[1].kind = "error"
    /\ responses[1].error # ""

OneSuccessRecord ==
    /\ Len(responses) = 1
    /\ responses[1].kind = "success"
    /\ responses[1].value # <<>>

(***************************************************************************)
(* C1.  When a handler returns, whatever the backend calls did (connect    *)
(* succeeded or failed, execute / fetch / catalog call succeeded or        *)
(* raised, cursor close succeeded or raised), every backend connection     *)
(* opened during the invocation has been released through close() and the  *)
(* client's connection handle is empty.  A connection is in state          *)
(* "close_failed" only when the backend's own close call raised.           *)
(***************************************************************************)
TheoremC1 ==
    Returned =>
        /\ connection = NoConnection
        /\ \A i \in 1..Len(conns) : conns[i] # "open"
        /\ \A i \in 1..Len(conns) :
              conns[i] = "close_failed" =>
                 \E j \in CallIndices : calls[j].op = "conn.close" /\ Failed(j)

WitnessC1 ==
    /\ Returned
    /\ handler = "get_columns"
    /\ conns = <<"closed">>
    /\ \E j \in CallIndices : calls[j].op = "cursor.close" /\ Failed(j)

(***************************************************************************)
(* C2.  For every query string that, trimmed, does not begin with SELECT   *)
(* in either case (the empty string included), the execute_query handler   *)
(* returns an error record and no backend call of any kind is made,        *)
(* whatever the configuration.                                             *)
(***************************************************************************)
TheoremC2 ==
    (QueryGiven /\ Validated /\ ~ BeginsWithSelect(strip(arguments.query[1])))
        => /\ calls = <<>>
           /\ conns = <<>>
           /\ pc \in {"except", "finally", "return", "done"}
           /\ Returned => OneErrorRecord

WitnessC2 ==
    /\ Returned
    /\ QueryGiven
    /\ arguments.query[1] = <<"D","R","O","P"," ","t">>
    /\ verify_config(config) = ""
    /\ OneErrorRecord
    /\ responses[1].error = "Only SELECT queries are allowed for security reasons"

(***************************************************************************)
(* C3.  As claimed: the query validator accepts a statement only if its    *)
(* first token, compared in upper case, is exactly SELECT; a longer first  *)
(* token that merely starts with SELECT is rejected.                       *)
(***************************************************************************)
CounterexampleC3 ==
    (QueryGiven /\ Validated)
        => (~ QueryRejected <=> IsSelect(FirstToken(strip(arguments.query[1]))))

(***************************************************************************)
(* C3, amended.  The query validator accepts a statement if and only if    *)
(* its first token begins with SELECT in either case; a longer first token *)
(* that starts with SELECT, such as SELECTED, is accepted, and the        *)
(* accepted statement is handed on trimmed.                                *)
(***************************************************************************)
TheoremC3 ==
    (QueryGiven /\ Validated)
        => /\ ~ QueryRejected
                <=> BeginsWithSelect(FirstToken(strip(arguments.query[1])))
           /\ (pc = "construct" => args.query = strip(arguments.query[1]))

WitnessC3 ==
    /\ QueryGiven
    /\ pc = "construct"
    /\ ~ QueryRejected
    /\ ~ IsSelect(FirstToken(strip(arguments.query[1])))
    /\ Len(FirstToken(strip(arguments.query[1]))) > Len(SELECT)

(***************************************************************************)
(* C4.  For a backend result of T rows and max_rows = N in 1..1000, the    *)
(* dict execute_query builds holds the first min(N, T) backend rows in     *)
(* backend order, row_count equal to the number of rows returned (so       *)
(* row_count <= N), and has_more true exactly when T > N; a successful     *)
(* execute_query returns that dict unchanged.                              *)
(***************************************************************************)
ResultAsClaimed ==
    (handler = "execute_query" /\ pc = "cursor_close" /\ result # <<>>)
        => LET T == Len(cursor.rows)
               N == args.max_rows
               r == result[1]
           IN  /\ N \in MaxRowsGe..MaxRowsLe
               /\ r.rows = SubSeq(cursor.rows, 1, Min(N, T))
               /\ r.row_count = Len(r.rows)
               /\ r.row_count <= N
               /\ r.has_more <=> T > N
               /\ r.columns = Columns

ResultReturned ==
    (handler = "execute_query" /\ pc = "cursor_close" /\ pc' = "serialize")
        => result' = result /\ result # <<>>

TheoremC4 == []ResultAsClaimed /\ [][ResultReturned]_vars

WitnessC4 ==
    /\ handler = "execute_query"
    /\ pc = "serialize"
    /\ args.max_rows = 2
    /\ result # <<>>
    /\ result[1].row_count = 2
    /\ result[1].has_more

(***************************************************************************)
(* C5.  When the configured driver JAR path is empty or names a file that  *)
(* does not exist, no client is constructed, no backend call is made, and  *)
(* the handler (each of the three) returns an error record carrying the    *)
(* configuration error, unless the arguments were already rejected.        *)
(***************************************************************************)
BadDriverPath ==
    config.jdbc_driver_path = "" \/ ~ path_exists(config.jdbc_driver_path)

TheoremC5 ==
    (Started /\ BadDriverPath)
        => /\ calls = <<>>
           /\ conns = <<>>
           /\ ~ clientBound
           /\ pc \in {"validate", "construct", "except", "finally", "return", "done"}
           /\ Returned =>
                 /\ OneErrorRecord
                 /\ IF ParseArgs(handler, arguments).ok
                    THEN responses[1].error \in ConfigMessages
                    ELSE responses[1].error \in ArgumentMessages

WitnessC5 ==
    /\ Returned
    /\ handler = "get_tables"
    /\ config.jdbc_driver_path = "missing.jar"
    /\ OneErrorRecord
    /\ responses[1].error = "JDBC driver JAR not found"

(***************************************************************************)
(* C6.  As claimed: if any one of the five configuration fields is empty,  *)
(* the violation is detected before any connection attempt: the backend    *)
(* connect call is never reached and no connection failure is reported.    *)
(***************************************************************************)
AnyFieldEmpty ==
    \/ config.jdbc_url = ""
    \/ config.jdbc_driver = ""
    \/ config.jdbc_driver_path = ""
    \/ config.username = ""
    \/ config.password = ""

CounterexampleC6 ==
    (Started /\ AnyFieldEmpty)
        => /\ CountCalls("connect") = 0
           /\ Returned => responses[1].error # "Connection failed"

(***************************************************************************)
(* C6, amended.  If the JDBC URL, the driver class or the driver JAR path  *)
(* is empty, configuration verification detects it before any connection   *)
(* attempt: connect is never called and no connection failure is           *)
(* reported.  An empty username or password is not checked: with the other *)
(* three fields valid the client is constructed and connect is called.     *)
(***************************************************************************)
VerifiedFieldEmpty ==
    \/ config.jdbc_url = ""
    \/ config.jdbc_driver = ""
    \/ config.jdbc_driver_path = ""

TheoremC6 ==
    /\ (Started /\ VerifiedFieldEmpty)
          => /\ CountCalls("connect") = 0
             /\ ~ clientBound
             /\ Returned =>
                   /\ OneErrorRecord
                   /\ responses[1].error # "Connection failed"
                   /\ ParseArgs(handler, arguments).ok
                         => responses[1].error \in ConfigMessages
    /\ (Returned /\ ~ VerifiedFieldEmpty /\ ~ BadDriverPath
           /\ ParseArgs(handler, arguments).ok)
          => clientBound /\ CountCalls("connect") = 1

WitnessC6 ==
    /\ Returned
    /\ config.jdbc_url = ""
    /\ config.jdbc_driver # ""
    /\ config.jdbc_driver_path = "driver.jar"
    /\ config.username # ""
    /\ config.password # ""
    /\ ParseArgs(handler, arguments).ok
    /\ OneErrorRecord
    /\ responses[1].error = "JDBC URL is required"

(***************************************************************************)
(* C7.  close() is idempotent: from any client state, and even when the    *)
(* backend's close call raises, close() raises nothing and leaves the      *)
(* connection handle empty; a close() right after a close(), or on a       *)
(* client without a connection, makes no backend call.                     *)
(***************************************************************************)
CloseStep == lastOp' = "close" /\ apiCalls' = apiCalls + 1

TheoremC7 ==
    [][CloseStep =>
          /\ connection' = NoConnection
          /\ exc' = ""
          /\ (connection = NoConnection => calls' = calls /\ conns' = conns)
          /\ (lastOp = "close" => calls' = calls /\ conns' = conns)]_vars

WitnessC7 ==
    /\ apiCalls = 3
    /\ lastOp = "close"
    /\ calls = <<Call("connect", TRUE), Call("conn.close", FALSE)>>
    /\ connection = NoConnection
    /\ exc = ""

(***************************************************************************)
(* C8.  As claimed: connect() on a client that already holds an open       *)
(* connection is a no-op, it opens no second backend connection and keeps  *)
(* the handle, so that every open backend connection is the one the        *)
(* handle holds and none stays open after close().                         *)
(***************************************************************************)
CounterexampleC8 ==
    \A i \in 1..Len(conns) : conns[i] = "open" => connection = i

(***************************************************************************)
(* C9.  No error leaves a handler: whichever step fails (argument          *)
(* validation, configuration verification, connect, execute / fetch /      *)
(* catalog call, cursor close, serialization, connection close), the       *)
(* handler returns exactly one record, a success record or an error        *)
(* record with a message, and no exception reaches the host.               *)
(***************************************************************************)
TheoremC9 ==
    /\ escaped = ""
    /\ Returned => (OneSuccessRecord \/ OneErrorRecord)

WitnessC9 ==
    /\ Returned
    /\ OneErrorRecord
    /\ responses[1].error = "Object is not JSON serializable"
    /\ calls # <<>>
    /\ calls[Len(calls)] = Call("conn.close", FALSE)

(***************************************************************************)
(* C10.  As claimed: nothing is retried; connect, the statement and each   *)
(* catalog call are issued at most once; after the first failed backend    *)
(* call only the cursor and the connection are released; and once a        *)
(* backend call has failed exactly one failure record is returned.         *)
(***************************************************************************)
NothingRetried ==
    /\ \A op \in IssuedOnceOps : CountCalls(op) <= 1
    /\ \A i, j \in CallIndices :
          (i < j /\ Failed(i)) => calls[j].op \in ReleaseOps

CounterexampleC10 ==
    /\ NothingRetried
    /\ (Returned /\ \E i \in CallIndices : Failed(i)) => OneErrorRecord

(***************************************************************************)
(* C10, amended.  Nothing is retried, as above; exactly one record is      *)
(* returned, and it is a failure record whenever a backend call other than *)
(* the connection's close has failed.  A failure of the connection's close *)
(* is logged and swallowed and leaves the record already built untouched.  *)
(***************************************************************************)
TheoremC10 ==
    /\ NothingRetried
    /\ Returned => Len(responses) = 1
    /\ (Returned /\ \E i \in CallIndices : Failed(i) /\ calls[i].op # "conn.close")
          => OneErrorRecord
    /\ (Returned /\ calls # <<>> /\ \A i \in CallIndices : calls[i].ok)
          => OneSuccessRecord \/ responses[1].error = "Object is not JSON serializable"

WitnessC10 ==
    /\ Returned
    /\ calls = <<Call("connect", TRUE), Call("cursor", TRUE),
                 Call("execute", FALSE), Call("cursor.close", TRUE),
                 Call("conn.close", TRUE)>>
    /\ OneErrorRecord
    /\ responses[1].error = "Query failed"

=============================================================================
